---------------------------- MODULE Spec2Model ----------------------------
(***************************************************************************)
(* A model of Repository (src/src/repository/Repository.ts): the graph     *)
(* collector extractObjectsById, the relation operations (setRelation,     *)
(* addToRelation, removeFromRelation, ...), transaction, and the persist   *)
(* and remove pipelines.  Each part is a state machine over its own        *)
(* variables; a behaviour exercises one part, the others stay switched     *)
(* off.                                                                    *)
(***************************************************************************)
EXTENDS Integers, Sequences, FiniteSets, TLC

VARIABLES
    heap,           \* the in-memory entity objects: reference -> its fields
    calls,          \* extractObjectsById: the invocations made so far
    stack,          \* extractObjectsById: the synchronous call stack
    entityWithIds,  \* extractObjectsById: the shared accumulator
    cstatus,        \* extractObjectsById: off | sync | async | done | overflow
    rows,           \* storage: table -> row id -> value of its foreign-key column
    junction,       \* storage: junction table -> its rows <<column 0, column 1>>
    relCall,        \* the relation operation called, with its arguments
    relPhase,       \* off | idle | running | done
    issued,         \* the statements the call handed to the driver
    pending,        \* those of them the storage has not executed yet
    stmtFailed,     \* whether a statement of the call failed
    relResult,      \* none | resolved | rejected
    preRows,        \* rows when the call was made
    preJunction,    \* junction when the call was made
    txPc,           \* transaction: the handler of the promise chain to run next
    txLog,          \* transaction: the driver methods and the callback invoked, in order
    txResult,       \* transaction: the value the callback returned
    runInTransactionResult, \* transaction: the local variable of that name
    txErr,          \* transaction: the error the catch handler received
    txRollbackErr,  \* transaction: the error rollbackTransaction failed with
    txOutcome,      \* transaction: the promise returned to the caller
    pOp,            \* persist / remove: the method called with an array (or off)
    pLen,           \* persist / remove: the length of the array
    dbRows,         \* persist / remove: the ids of the rows in storage
    dbOne,          \* persist / remove: per row id, the foreign key of "one"
    pipe,           \* persist / remove: per entity of the array, the state of its call
    applied,        \* persist / remove: the entities whose PersistOperation was executed
    pOutcome        \* persist / remove: the promise returned to the caller

collectVars == <<calls, stack, entityWithIds, cstatus>>

relVars == <<rows, junction, relCall, relPhase, issued, pending, stmtFailed,
             relResult, preRows, preJunction>>

txVars == <<txPc, txLog, txResult, runInTransactionResult, txErr, txRollbackErr,
            txOutcome>>

persistVars == <<pOp, pLen, dbRows, dbOne, pipe, applied, pOutcome>>

vars == <<heap, calls, stack, entityWithIds, cstatus,
          rows, junction, relCall, relPhase, issued, pending, stmtFailed,
          relResult, preRows, preJunction,
          txPc, txLog, txResult, runInTransactionResult, txErr, txRollbackErr,
          txOutcome,
          pOp, pLen, dbRows, dbOne, pipe, applied, pOutcome>>

(***************************************************************************)
(* Bounds of the model.                                                    *)
(***************************************************************************)
NumObjs == 3        \* object references in the heap
MaxRefs == 3        \* relation values set in the whole object graph
MaxId == 2          \* row identifiers are 1..MaxId
StackLimit == 5     \* frames the engine's call stack holds (more than NumObjs)
MaxList == 2        \* length of an id list passed to a relation operation
MaxValue == 2       \* the callback of transaction returns undefined or 1..MaxValue
MaxErr == 3         \* distinct errors a driver method or the callback fails with
MaxEntities == 2    \* length of the array passed to persist or remove

\* null / undefined
Null == 0

Objs == 1..NumObjs
Ids == 1..MaxId
Root == 1

(***************************************************************************)
(* Metadata of the collected entity type: its primary column and its       *)
(* relations, in declaration order.  "one" is an eager single-valued       *)
(* relation, "many" a lazy collection relation; both point to the same     *)
(* entity type, so that an object may reference itself.                    *)
(***************************************************************************)
Metadata ==
    [target |-> "Post",
     primaryColumn |-> "id",
     relations |-> << [propertyName |-> "one", isLazy |-> FALSE],
                      [propertyName |-> "many", isLazy |-> TRUE] >>]

\* An entity object: its primary column, the eager slot "one" and the lazy
\* slot "__many__" (an array, <<>> when unset or empty).
EmptyObject == [id |-> Null, one |-> Null, many |-> <<>>]

\* The value extractObjectsById reads for a relation: relation.isLazy ?
\* entity["__" + propertyName + "__"] : entity[propertyName], as the list of
\* the sub-entities it recurses into (none for a falsy value).
RelationValue(obj, relation) ==
    IF relation.isLazy
    THEN obj.many
    ELSE IF obj.one = Null THEN <<>> ELSE <<obj.one>>

RECURSIVE FlattenRelations(_, _)
FlattenRelations(obj, relations) ==
    IF relations = <<>>
    THEN <<>>
    ELSE RelationValue(obj, Head(relations)) \o FlattenRelations(obj, Tail(relations))

\* The sub-entities one invocation recurses into, in the order the
\* synchronous map over metadata.relations (and over an array value) calls
\* extractObjectsById on them.
SubEntities(h, o) == FlattenRelations(h[o], Metadata.relations)

(***************************************************************************)
(* The object graphs a behaviour starts from: every graph over Objs with   *)
(* at most MaxRefs relation values, up to renaming of the references (the  *)
(* objects are numbered in the order a depth-first walk from Root meets    *)
(* them, and an unreachable object is empty).                              *)
(***************************************************************************)
RECURSIVE Graphs(_)
Graphs(k) ==
    IF k = 0
    THEN {[o \in Objs |-> EmptyObject]}
    ELSE LET G == Graphs(k - 1)
         IN  G \cup {[x[1] EXCEPT ![x[2]].one = x[3]] :
                        x \in {y \in G \X Objs \X Objs : y[1][y[2]].one = Null}}
               \cup {[x[1] EXCEPT ![x[2]].many = Append(@, x[3])] :
                        x \in G \X Objs \X Objs}

RECURSIVE Discover(_, _, _)
Discover(h, todo, seen) ==
    IF todo = <<>>
    THEN seen
    ELSE IF \E i \in 1..Len(seen) : seen[i] = Head(todo)
         THEN Discover(h, Tail(todo), seen)
         ELSE Discover(h, SubEntities(h, Head(todo)) \o Tail(todo),
                       Append(seen, Head(todo)))

Reachable(h) == {Discover(h, <<Root>>, <<>>)[i] : i \in 1..Len(Discover(h, <<Root>>, <<>>))}

Canonical(h) ==
    LET d == Discover(h, <<Root>>, <<>>)
    IN  /\ \A i \in 1..Len(d) : d[i] = i
        /\ \A o \in Objs : o > Len(d) => h[o] = EmptyObject

\* A cycle: some reachable object reaches itself through relations.
RECURSIVE ReachFrom(_, _, _)
ReachFrom(h, frontier, seen) ==
    LET next == UNION {{SubEntities(h, o)[i] : i \in 1..Len(SubEntities(h, o))} : o \in frontier}
    IN  IF next \subseteq seen THEN seen ELSE ReachFrom(h, next \ seen, seen \cup next)

Cyclic(h) == \E o \in Reachable(h) : o \in ReachFrom(h, {o}, {})

(***************************************************************************)
(* extractObjectsById(entity, metadata, entityWithIds).  The recursion     *)
(* into the relations is synchronous; each invocation returns              *)
(* Promise.all(sub-promises).then(record), and the then-callbacks run      *)
(* later, each once its sub-promises are resolved.                         *)
(***************************************************************************)
Top == stack[Len(stack)]

TopSubEntities == SubEntities(heap, calls[Top.call].entity)

\* The map callback calls this.extractObjectsById on the next sub-entity.
ExtractRecurse ==
    /\ cstatus = "sync"
    /\ Top.pos < Len(TopSubEntities)
    /\ Len(stack) < StackLimit
    /\ calls' = Append(calls, [entity |-> TopSubEntities[Top.pos + 1],
                               parent |-> Top.call, resolved |-> FALSE])
    /\ stack' = Append([stack EXCEPT ![Len(stack)].pos = @ + 1],
                       [call |-> Len(calls) + 1, pos |-> 0])
    /\ UNCHANGED <<heap, entityWithIds, cstatus>>
    /\ UNCHANGED <<relVars, txVars, persistVars>>

\* The same call with the call stack full: the engine throws RangeError,
\* which unwinds every frame of the recursion.
ExtractStackOverflow ==
    /\ cstatus = "sync"
    /\ Top.pos < Len(TopSubEntities)
    /\ Len(stack) = StackLimit
    /\ stack' = <<>>
    /\ cstatus' = "overflow"
    /\ UNCHANGED <<heap, calls, entityWithIds>>
    /\ UNCHANGED <<relVars, txVars, persistVars>>

\* All relations of the invocation are mapped: it returns its promise.
ExtractReturn ==
    /\ cstatus = "sync"
    /\ Top.pos = Len(TopSubEntities)
    /\ stack' = SubSeq(stack, 1, Len(stack) - 1)
    /\ cstatus' = IF Len(stack) = 1 THEN "async" ELSE "sync"
    /\ UNCHANGED <<heap, calls, entityWithIds>>
    /\ UNCHANGED <<relVars, txVars, persistVars>>

\* Found by row identity instead of by reference: an entry with the same id.
FoundById(acc, entity) == \E i \in 1..Len(acc) : acc[i].id = heap[entity].id

Found(acc, entity) == \E i \in 1..Len(acc) : acc[i].entity = entity

\* RecordEntity without the reference check of line 668.
RecordEntityUnchecked(acc, h, entity) ==
    Append(acc, [id |-> h[entity].id, entityTarget |-> Metadata.target,
                 entity |-> entity])

\* The body of the then-callback: record the entity unless the accumulator
\* already holds this object reference.
RecordEntity(acc, h, entity) ==
    IF ~Found(acc, entity)
    THEN Append(acc, [id |-> h[entity].id, entityTarget |-> Metadata.target,
                      entity |-> entity])
    ELSE acc

\* ExtractThen without Promise.all: the callback of invocation c does not
\* wait for its sub-promises.
ExtractThenEarly(c) ==
    /\ cstatus = "async"
    /\ ~calls[c].resolved
    /\ entityWithIds' = RecordEntity(entityWithIds, heap, calls[c].entity)
    /\ calls' = [calls EXCEPT ![c].resolved = TRUE]
    /\ cstatus' = IF calls[c].parent = 0 THEN "done" ELSE "async"
    /\ UNCHANGED <<heap, stack>>
    /\ UNCHANGED <<relVars, txVars, persistVars>>

\* The then-callback of invocation c runs: its sub-promises are resolved.
ExtractThen(c) ==
    /\ cstatus = "async"
    /\ ~calls[c].resolved
    /\ \A j \in 1..Len(calls) : calls[j].parent = c => calls[j].resolved
    /\ entityWithIds' = RecordEntity(entityWithIds, heap, calls[c].entity)
    /\ calls' = [calls EXCEPT ![c].resolved = TRUE]
    /\ cstatus' = IF calls[c].parent = 0 THEN "done" ELSE "async"
    /\ UNCHANGED <<heap, stack>>
    /\ UNCHANGED <<relVars, txVars, persistVars>>

(***************************************************************************)
(* Storage as the relation operations see it.  The repository is the one   *)
(* of Post.  Post.category is many-to-one (owning: column post.category),  *)
(* Post.image is one-to-one without the join column (the owner is          *)
(* Image.post: column image.post), Post.tags is many-to-many and owning    *)
(* (junction post_tags), Post.groups is many-to-many and not owning        *)
(* (junction group_posts, owned by Group.posts).  Every table holds the    *)
(* rows 1..MaxId and every primary column is named "id".                   *)
(***************************************************************************)
FkTables == {"post", "image"}

JunctionTables == {"post_tags", "group_posts"}

\* The foreign-key column of a table.
FkColumn(table) == IF table = "post" THEN "category" ELSE "post"

RelationNames == {"category", "image", "tags", "groups"}

\* A name no relation of Post has.
PropertyNames == RelationNames \cup {"missing"}

\* RelationMetadata of "Entity.property".  joinColumn is the name of the
\* column the join column references ("" when the relation has no join
\* column: only an owning single-valued relation has one).
RelationMetadata(key) ==
    CASE key = "Post.category" ->
           [name |-> "category", isManyToMany |-> FALSE, isOwning |-> TRUE,
            table |-> "post", inverseTable |-> "category",
            inverseRelation |-> "Category.posts", joinColumn |-> "id",
            junctionTable |-> ""]
      [] key = "Category.posts" ->
           [name |-> "posts", isManyToMany |-> FALSE, isOwning |-> FALSE,
            table |-> "category", inverseTable |-> "post",
            inverseRelation |-> "Post.category", joinColumn |-> "",
            junctionTable |-> ""]
      [] key = "Post.image" ->
           [name |-> "image", isManyToMany |-> FALSE, isOwning |-> FALSE,
            table |-> "post", inverseTable |-> "image",
            inverseRelation |-> "Image.post", joinColumn |-> "",
            junctionTable |-> ""]
      [] key = "Image.post" ->
           [name |-> "post", isManyToMany |-> FALSE, isOwning |-> TRUE,
            table |-> "image", inverseTable |-> "post",
            inverseRelation |-> "Post.image", joinColumn |-> "id",
            junctionTable |-> ""]
      [] key = "Post.tags" ->
           [name |-> "tags", isManyToMany |-> TRUE, isOwning |-> TRUE,
            table |-> "post", inverseTable |-> "tag",
            inverseRelation |-> "Tag.posts", joinColumn |-> "",
            junctionTable |-> "post_tags"]
      [] OTHER ->
           [name |-> "groups", isManyToMany |-> TRUE, isOwning |-> FALSE,
            table |-> "post", inverseTable |-> "group",
            inverseRelation |-> "Group.posts", joinColumn |-> "",
            junctionTable |-> "group_posts"]

\* this.metadata.hasRelationWithPropertyName / findRelationWithPropertyName
HasRelationWithPropertyName(propertyName) == propertyName \in RelationNames

FindRelationWithPropertyName(propertyName) == RelationMetadata("Post." \o propertyName)

\* Arguments.  A relatedEntityId is a scalar (an id or null) or an array of
\* ids; an id list is an array or null / undefined.
Scalar(id) == [isArray |-> FALSE, id |-> id, ids |-> <<>>]

Array(ids) == [isArray |-> TRUE, id |-> Null, ids |-> ids]

List(ids) == [isNull |-> FALSE, ids |-> ids]

NullList == [isNull |-> TRUE, ids |-> <<>>]

\* The id lists tried: null and every strictly increasing list of at most
\* MaxList ids.
IdLists ==
    {NullList} \cup
    {List(s) : s \in {t \in UNION {[1..n -> Ids] : n \in 0..MaxList} :
                         \A i \in 1..Len(t) - 1 : t[i] < t[i + 1]}}

RelatedValues ==
    {Scalar(i) : i \in Ids \cup {Null}} \cup
    {Array(l.ids) : l \in {m \in IdLists : ~m.isNull /\ Len(m.ids) = MaxList}}

(***************************************************************************)
(* Statements handed to the driver.                                        *)
(***************************************************************************)
NoValue == Scalar(Null)

\* driver.update(table, {column: value}, {whereColumn: whereValue})
UpdateStatement(table, column, value, whereColumn, whereValue) ==
    [kind |-> "update", table |-> table, column |-> column, value |-> value,
     whereColumn |-> whereColumn, whereValue |-> whereValue,
     row |-> <<Null, Null>>, where |-> {}]

\* driver.insert(junction table, {columns[0]: row[1], columns[1]: row[2]})
InsertStatement(table, row) ==
    [kind |-> "insert", table |-> table, column |-> "", value |-> NoValue,
     whereColumn |-> "", whereValue |-> Null, row |-> row, where |-> {}]

\* A delete query on a junction table; where is the set of its orWhere
\* conditions, each the row <<columns[0], columns[1]>> it matches.  A delete
\* without conditions matches every row of the table.
DeleteStatement(table, where) ==
    [kind |-> "delete", table |-> table, column |-> "", value |-> NoValue,
     whereColumn |-> "", whereValue |-> Null, row |-> <<Null, Null>>,
     where |-> where]

\* What a handler does before it returns: it throws (the async method's
\* promise rejects) or hands statements to the driver.
Rejects == [rejected |-> TRUE, statements |-> {}]

Issues(statements) == [rejected |-> FALSE, statements |-> statements]

Elements(seq) == {seq[i] : i \in 1..Len(seq)}

(***************************************************************************)
(* The relation operations.  Each operator is one method up to the point   *)
(* where it returns its promise: the checks, then the statements.          *)
(***************************************************************************)
\* relation.joinColumn.referencedColumn.name on a relation without a join
\* column throws TypeError.
HasJoinColumn(relation) == relation.joinColumn # ""

\* setRelation(relationName, entityId, relatedEntityId)
SetRelation(propertyName, entityId, relatedEntityId) ==
    IF ~HasRelationWithPropertyName(propertyName)
    THEN Rejects
    ELSE LET relation == FindRelationWithPropertyName(propertyName)
             inverse == RelationMetadata(relation.inverseRelation)
         IN  IF relation.isManyToMany
             THEN Rejects
             ELSE IF relation.isOwning
                  THEN IF ~HasJoinColumn(relation)
                       THEN Rejects
                       ELSE Issues({UpdateStatement(relation.table, relation.name,
                                        relatedEntityId, relation.joinColumn, entityId)})
                  ELSE IF ~HasJoinColumn(inverse)
                       THEN Rejects
                       ELSE Issues({UpdateStatement(relation.inverseTable, inverse.name,
                                        relatedEntityId, inverse.joinColumn, entityId)})

\* setInverseRelation(relationName, relatedEntityId, entityId)
SetInverseRelation(propertyName, relatedEntityId, entityId) ==
    IF ~HasRelationWithPropertyName(propertyName)
    THEN Rejects
    ELSE LET relation == FindRelationWithPropertyName(propertyName)
             inverse == RelationMetadata(relation.inverseRelation)
         IN  IF relation.isManyToMany
             THEN Rejects
             ELSE IF relation.isOwning
                  THEN IF ~HasJoinColumn(inverse)
                       THEN Rejects
                       ELSE Issues({UpdateStatement(relation.inverseTable, inverse.name,
                                        relatedEntityId, inverse.joinColumn, entityId)})
                  ELSE IF ~HasJoinColumn(relation)
                       THEN Rejects
                       ELSE Issues({UpdateStatement(relation.table, relation.name,
                                        relatedEntityId, relation.joinColumn, entityId)})

\* The junction row with columns[0] = first and columns[1] = second.
JunctionRow(first, second) == <<first, second>>

\* addToRelation that fills the junction columns as for an owning relation
\* whichever side the relation is (lines 428-431 left out).
AddToRelationOwningOnly(propertyName, entityId, relatedEntityIds) ==
    IF ~HasRelationWithPropertyName(propertyName)
    THEN Rejects
    ELSE LET relation == FindRelationWithPropertyName(propertyName)
         IN  IF ~relation.isManyToMany
             THEN Rejects
             ELSE IF relatedEntityIds.isNull
                  THEN Rejects
                  ELSE Issues({InsertStatement(relation.junctionTable,
                                   JunctionRow(entityId, relatedEntityId)) :
                               relatedEntityId \in Elements(relatedEntityIds.ids)})

\* addToRelation(relationName, entityId, relatedEntityIds)
AddToRelation(propertyName, entityId, relatedEntityIds) ==
    IF ~HasRelationWithPropertyName(propertyName)
    THEN Rejects
    ELSE LET relation == FindRelationWithPropertyName(propertyName)
         IN  IF ~relation.isManyToMany
             THEN Rejects
             ELSE IF relatedEntityIds.isNull
                  THEN Rejects    \* relatedEntityIds.map: TypeError
                  ELSE Issues({InsertStatement(relation.junctionTable,
                                   IF relation.isOwning
                                   THEN JunctionRow(entityId, relatedEntityId)
                                   ELSE JunctionRow(relatedEntityId, entityId)) :
                               relatedEntityId \in Elements(relatedEntityIds.ids)})

\* addToInverseRelation with the two junction columns exchanged.
AddToInverseRelationSwapped(propertyName, relatedEntityId, entityIds) ==
    IF ~HasRelationWithPropertyName(propertyName)
    THEN Rejects
    ELSE LET relation == FindRelationWithPropertyName(propertyName)
         IN  IF ~relation.isManyToMany
             THEN Rejects
             ELSE IF entityIds.isNull
                  THEN Rejects
                  ELSE Issues({InsertStatement(relation.junctionTable,
                                   IF relation.isOwning
                                   THEN JunctionRow(relatedEntityId, entityId)
                                   ELSE JunctionRow(entityId, relatedEntityId)) :
                               entityId \in Elements(entityIds.ids)})

\* addToInverseRelation(relationName, relatedEntityId, entityIds)
AddToInverseRelation(propertyName, relatedEntityId, entityIds) ==
    IF ~HasRelationWithPropertyName(propertyName)
    THEN Rejects
    ELSE LET relation == FindRelationWithPropertyName(propertyName)
         IN  IF ~relation.isManyToMany
             THEN Rejects
             ELSE IF entityIds.isNull
                  THEN Rejects    \* entityIds.map: TypeError
                  ELSE Issues({InsertStatement(relation.junctionTable,
                                   IF relation.isOwning
                                   THEN JunctionRow(entityId, relatedEntityId)
                                   ELSE JunctionRow(relatedEntityId, entityId)) :
                               entityId \in Elements(entityIds.ids)})

\* RemoveStatements without the check of line 486: the delete is built even
\* for an empty list, and then has no condition.
RemoveStatementsUnguarded(relation, entityId, relatedEntityIds) ==
    {DeleteStatement(relation.junctionTable,
         {IF relation.isOwning
          THEN JunctionRow(entityId, relatedEntityId)
          ELSE JunctionRow(relatedEntityId, entityId) :
          relatedEntityId \in Elements(relatedEntityIds.ids)})}

\* The statements of removeFromRelation once the relation is checked.
RemoveStatements(relation, entityId, relatedEntityIds) ==
    IF relatedEntityIds.isNull \/ Len(relatedEntityIds.ids) = 0
    THEN {}
    ELSE {DeleteStatement(relation.junctionTable,
              {IF relation.isOwning
               THEN JunctionRow(entityId, relatedEntityId)
               ELSE JunctionRow(relatedEntityId, entityId) :
               relatedEntityId \in Elements(relatedEntityIds.ids)})}

\* removeFromRelation with the empty-list check made before the relation
\* checks.
RemoveFromRelationEmptyFirst(propertyName, entityId, relatedEntityIds) ==
    IF relatedEntityIds.isNull \/ Len(relatedEntityIds.ids) = 0
    THEN Issues({})
    ELSE IF ~HasRelationWithPropertyName(propertyName)
         THEN Rejects
         ELSE LET relation == FindRelationWithPropertyName(propertyName)
              IN  IF ~relation.isManyToMany
                  THEN Rejects
                  ELSE Issues(RemoveStatements(relation, entityId, relatedEntityIds))

\* removeFromRelation(relationName, entityId, relatedEntityIds)
RemoveFromRelation(propertyName, entityId, relatedEntityIds) ==
    IF ~HasRelationWithPropertyName(propertyName)
    THEN Rejects
    ELSE LET relation == FindRelationWithPropertyName(propertyName)
         IN  IF ~relation.isManyToMany
             THEN Rejects
             ELSE Issues(RemoveStatements(relation, entityId, relatedEntityIds))

\* The statements of removeFromInverseRelation once the relation is checked.
RemoveInverseStatements(relation, relatedEntityId, entityIds) ==
    IF entityIds.isNull \/ Len(entityIds.ids) = 0
    THEN {}
    ELSE {DeleteStatement(relation.junctionTable,
              {IF relation.isOwning
               THEN JunctionRow(entityId, relatedEntityId)
               ELSE JunctionRow(relatedEntityId, entityId) :
               entityId \in Elements(entityIds.ids)})}

\* removeFromInverseRelation(relationName, relatedEntityId, entityIds)
RemoveFromInverseRelation(propertyName, relatedEntityId, entityIds) ==
    IF ~HasRelationWithPropertyName(propertyName)
    THEN Rejects
    ELSE LET relation == FindRelationWithPropertyName(propertyName)
         IN  IF ~relation.isManyToMany
             THEN Rejects
             ELSE Issues(RemoveInverseStatements(relation, relatedEntityId, entityIds))

\* Promise.all([a, b]): both run; the result rejects when either does.
Both(a, b) ==
    [rejected |-> a.rejected \/ b.rejected,
     statements |-> a.statements \cup b.statements]

\* addAndRemoveFromRelation(relation, entityId, addRelatedEntityIds, removeRelatedEntityIds)
AddAndRemoveFromRelation(propertyName, entityId, addRelatedEntityIds, removeRelatedEntityIds) ==
    Both(AddToRelation(propertyName, entityId, addRelatedEntityIds),
         RemoveFromRelation(propertyName, entityId, removeRelatedEntityIds))

\* addAndRemoveFromInverseRelation(relation, relatedEntityId, addEntityIds, removeEntityIds)
AddAndRemoveFromInverseRelation(propertyName, relatedEntityId, addEntityIds, removeEntityIds) ==
    Both(AddToInverseRelation(propertyName, relatedEntityId, addEntityIds),
         RemoveFromInverseRelation(propertyName, relatedEntityId, removeEntityIds))

(***************************************************************************)
(* The storage executing a statement.                                      *)
(***************************************************************************)
\* The value of a column of the row with this id.
ColumnValue(table, id, column) == IF column = "id" THEN id ELSE rows[table][id]

KnownColumn(table, column) ==
    table \in FkTables /\ column \in {"id", FkColumn(table)}

\* UPDATE table SET column = value WHERE whereColumn = whereValue
UpdatedRows(st, value) ==
    [rows EXCEPT ![st.table] =
        [id \in Ids |-> IF ColumnValue(st.table, id, st.whereColumn) = st.whereValue
                        THEN value ELSE @[id]]]

\* The outcomes of an update: the rows afterwards and whether it failed.  A
\* statement on a column the table does not have fails.  What the driver
\* does with an array as a column value is not fixed: it fails, or it
\* writes some scalar it makes of the array.
UpdateOutcomes(st) ==
    IF ~(KnownColumn(st.table, st.column) /\ st.column # "id"
         /\ KnownColumn(st.table, st.whereColumn))
    THEN {[rows |-> rows, failed |-> TRUE]}
    ELSE IF st.value.isArray
         THEN {[rows |-> rows, failed |-> TRUE]} \cup
              {[rows |-> UpdatedRows(st, v), failed |-> FALSE] : v \in Ids \cup {Null}}
         ELSE {[rows |-> UpdatedRows(st, st.value.id), failed |-> FALSE]}

\* The rows a delete removes.
Deleted(st, table) == IF st.where = {} THEN table ELSE table \cap st.where

NewCall(op, propertyName, entityId, value, add, remove) ==
    [op |-> op, relation |-> propertyName, entityId |-> entityId,
     value |-> value, add |-> add, remove |-> remove]

NoCall(propertyName) == NewCall("none", propertyName, Null, NoValue, NullList, NullList)

\* A method is called: it rejects or hands its statements to the driver.
StartCall(call, outcome) ==
    /\ relPhase = "idle"
    /\ call.relation = relCall.relation
    /\ relCall' = call
    /\ issued' = outcome.statements
    /\ pending' = outcome.statements
    /\ stmtFailed' = FALSE
    /\ preRows' = rows
    /\ preJunction' = junction
    /\ relPhase' = IF outcome.statements = {} THEN "done" ELSE "running"
    /\ relResult' = IF outcome.rejected THEN "rejected"
                    ELSE IF outcome.statements = {} THEN "resolved" ELSE "none"
    /\ UNCHANGED <<rows, junction>>
    /\ UNCHANGED <<heap, collectVars, txVars, persistVars>>

CallSetRelation ==
    /\ relPhase = "idle"
    /\ \E p \in PropertyNames, e \in Ids, v \in RelatedValues :
           StartCall(NewCall("setRelation", p, e, v, NullList, NullList),
                     SetRelation(p, e, v))

CallSetInverseRelation ==
    /\ relPhase = "idle"
    /\ \E p \in PropertyNames, e \in Ids, v \in RelatedValues :
           StartCall(NewCall("setInverseRelation", p, e, v, NullList, NullList),
                     SetInverseRelation(p, v, e))

CallAddToRelation ==
    /\ relPhase = "idle"
    /\ \E p \in PropertyNames, e \in Ids, l \in IdLists :
           StartCall(NewCall("addToRelation", p, e, NoValue, l, NullList),
                     AddToRelation(p, e, l))

CallAddToInverseRelation ==
    /\ relPhase = "idle"
    /\ \E p \in PropertyNames, e \in Ids, l \in IdLists :
           StartCall(NewCall("addToInverseRelation", p, e, NoValue, l, NullList),
                     AddToInverseRelation(p, e, l))

CallRemoveFromRelation ==
    /\ relPhase = "idle"
    /\ \E p \in PropertyNames, e \in Ids, l \in IdLists :
           StartCall(NewCall("removeFromRelation", p, e, NoValue, NullList, l),
                     RemoveFromRelation(p, e, l))

CallRemoveFromInverseRelation ==
    /\ relPhase = "idle"
    /\ \E p \in PropertyNames, e \in Ids, l \in IdLists :
           StartCall(NewCall("removeFromInverseRelation", p, e, NoValue, NullList, l),
                     RemoveFromInverseRelation(p, e, l))

CallAddAndRemoveFromRelation ==
    /\ relPhase = "idle"
    /\ \E p \in PropertyNames, e \in Ids, a \in IdLists, r \in IdLists :
           StartCall(NewCall("addAndRemoveFromRelation", p, e, NoValue, a, r),
                     AddAndRemoveFromRelation(p, e, a, r))

CallAddAndRemoveFromInverseRelation ==
    /\ relPhase = "idle"
    /\ \E p \in PropertyNames, e \in Ids, a \in IdLists, r \in IdLists :
           StartCall(NewCall("addAndRemoveFromInverseRelation", p, e, NoValue, a, r),
                     AddAndRemoveFromInverseRelation(p, e, a, r))

\* The call's promise settles when its last statement has been executed.
Settle(st, failed) ==
    /\ pending' = pending \ {st}
    /\ stmtFailed' = (stmtFailed \/ failed)
    /\ relPhase' = IF pending = {st} THEN "done" ELSE "running"
    /\ relResult' = IF pending # {st} THEN relResult
                    ELSE IF relResult = "rejected" \/ stmtFailed \/ failed
                         THEN "rejected" ELSE "resolved"
    /\ UNCHANGED <<relCall, issued, preRows, preJunction>>
    /\ UNCHANGED <<heap, collectVars, txVars, persistVars>>

\* The storage executes a pending update.
ExecuteUpdate ==
    /\ relPhase = "running"
    /\ \E st \in pending :
         /\ st.kind = "update"
         /\ \E o \in UpdateOutcomes(st) :
              /\ rows' = o.rows
              /\ Settle(st, o.failed)
    /\ UNCHANGED junction

\* The storage executes a pending insert; a row the junction table already
\* holds is not added again, and the statement may fail on it.
ExecuteInsert ==
    /\ relPhase = "running"
    /\ \E st \in pending :
         /\ st.kind = "insert"
         /\ junction' = [junction EXCEPT ![st.table] = @ \cup {st.row}]
         /\ \E failed \in {FALSE, st.row \in junction[st.table]} :
              Settle(st, failed)
    /\ UNCHANGED rows

\* The storage executes a pending delete.
ExecuteDelete ==
    /\ relPhase = "running"
    /\ \E st \in pending :
         /\ st.kind = "delete"
         /\ junction' = [junction EXCEPT ![st.table] = @ \ Deleted(st, @)]
         /\ Settle(st, FALSE)
    /\ UNCHANGED rows

(***************************************************************************)
(* transaction(runInTransaction): the promise chain                        *)
(*   beginTransaction().then(run).then(commit).catch(rollback).then(result) *)
(* one handler per action.  A driver method or the callback succeeds or    *)
(* fails with an error.                                                    *)
(***************************************************************************)
Error(from, code) == [from |-> from, code |-> code]

NoError == Error("none", 0)

Errors(from) == {Error(from, code) : code \in 1..MaxErr}

\* The callback returns undefined (Null) or a value.
Values == {Null} \cup 1..MaxValue

Pending == [state |-> "pending", value |-> Null, errors |-> {}]

Resolved(value) == [state |-> "resolved", value |-> value, errors |-> {}]

\* A rejection, with the errors it carries.
Rejected(errors) == [state |-> "rejected", value |-> Null, errors |-> errors]

\* A handler of the chain throws or its promise rejects: the catch handler
\* runs next, with that error.
Caught(err) ==
    /\ txErr' = err
    /\ txPc' = "catch"

\* this.driver.beginTransaction()
TxBegin ==
    /\ txPc = "begin"
    /\ txLog' = Append(txLog, "beginTransaction")
    /\ \/ txPc' = "run" /\ UNCHANGED txErr
       \/ \E err \in Errors("beginTransaction") : Caught(err)
    /\ UNCHANGED <<txResult, runInTransactionResult, txRollbackErr, txOutcome>>
    /\ UNCHANGED <<heap, collectVars, relVars, persistVars>>

\* .then(() => runInTransaction())
TxRun ==
    /\ txPc = "run"
    /\ txLog' = Append(txLog, "runInTransaction")
    /\ \/ \E v \in Values : txResult' = v /\ txPc' = "commit" /\ UNCHANGED txErr
       \/ \E err \in Errors("runInTransaction") : Caught(err) /\ UNCHANGED txResult
    /\ UNCHANGED <<runInTransactionResult, txRollbackErr, txOutcome>>
    /\ UNCHANGED <<heap, collectVars, relVars, persistVars>>

\* .then(result => { runInTransactionResult = result; return commitTransaction(); })
TxCommit ==
    /\ txPc = "commit"
    /\ runInTransactionResult' = txResult
    /\ txLog' = Append(txLog, "commitTransaction")
    /\ \/ txPc' = "result" /\ UNCHANGED txErr
       \/ \E err \in Errors("commitTransaction") : Caught(err)
    /\ UNCHANGED <<txResult, txRollbackErr, txOutcome>>
    /\ UNCHANGED <<heap, collectVars, relVars, persistVars>>

\* .catch(err => this.driver.rollbackTransaction()...
TxCatch ==
    /\ txPc = "catch"
    /\ txLog' = Append(txLog, "rollbackTransaction")
    /\ txRollbackErr' \in {NoError} \cup Errors("rollbackTransaction")
    /\ txPc' = "rethrow"
    /\ UNCHANGED <<txResult, runInTransactionResult, txErr, txOutcome>>
    /\ UNCHANGED <<heap, collectVars, relVars, persistVars>>

\* A rethrow that lets the error of a failed rollback replace the original
\* one (.catch(e => { throw e; })).
AfterRollbackKeepsLast(err, rollbackErr) ==
    IF rollbackErr = NoError THEN Rejected({err}) ELSE Rejected({rollbackErr})

\* A rethrow missing after a successful rollback: the chain goes on to the
\* final then.
AfterRollbackSwallows(err, rollbackErr) ==
    IF rollbackErr = NoError THEN Resolved(Null) ELSE Rejected({err})

\* ....then(() => { throw err; }).catch(() => { throw err; }): whether the
\* rollback succeeded or failed, the original error is thrown.
AfterRollback(err, rollbackErr) == Rejected({err})

\* The two handlers after rollbackTransaction; the rejection skips the final
\* then and reaches the caller.
TxRethrow ==
    /\ txPc = "rethrow"
    /\ txOutcome' = AfterRollback(txErr, txRollbackErr)
    /\ txPc' = "done"
    /\ UNCHANGED <<txLog, txResult, runInTransactionResult, txErr, txRollbackErr>>
    /\ UNCHANGED <<heap, collectVars, relVars, persistVars>>

\* TxResult resolving with undefined instead of the callback's result.
TxResultUndefined ==
    /\ txPc = "result"
    /\ txOutcome' = Resolved(Null)
    /\ txPc' = "done"
    /\ UNCHANGED <<txLog, txResult, runInTransactionResult, txErr, txRollbackErr>>
    /\ UNCHANGED <<heap, collectVars, relVars, persistVars>>

\* .then(() => runInTransactionResult)
TxResult ==
    /\ txPc = "result"
    /\ txOutcome' = Resolved(runInTransactionResult)
    /\ txPc' = "done"
    /\ UNCHANGED <<txLog, txResult, runInTransactionResult, txErr, txRollbackErr>>
    /\ UNCHANGED <<heap, collectVars, relVars, persistVars>>

(***************************************************************************)
(* persist and remove.  persist(entities) and remove(entities) on an array *)
(* give each element its own call of persist / remove, all started by the  *)
(* map, and the caller gets Promise.all of their promises.  The entities   *)
(* of the call are the heap objects 1..pLen.  All rows are rows of one     *)
(* table; a row is its id and the foreign key of its relation "one".  One  *)
(* action per continuation of a call, i.e. per await.                      *)
(***************************************************************************)
\* The empty string as a value of the primary column (every other id is a
\* positive number).
EmptyString == 0 - 1

\* The ids a row can have: the empty string, the ids entities come with and
\* the ids storage generates.
RowIds == {EmptyString} \cup 1..(MaxId + NumObjs)

HasId(object) == object.id # Null /\ object.id # EmptyString

\* The object loaded from the row with this id: never one of the caller's.
DbObject(id) == NumObjs + 2 + id

DbEntityWithId(id) ==
    [id |-> id, entityTarget |-> Metadata.target, entity |-> DbObject(id)]

\* preload: the entity reloaded by its identity, null when it has none or
\* no row matches.
Preload(table, id) ==
    IF id # Null /\ id # EmptyString /\ id \in table THEN id ELSE Null

\* The row the loaded entity's relation "one" joins, null when the foreign
\* key is null or the row is gone.
PreloadOne(table, fks, id) ==
    IF Preload(table, id) # Null /\ fks[id] # Null /\ fks[id] \in table
    THEN fks[id]
    ELSE Null

\* extractObjectsById on an acyclic graph, all its then-callbacks run: the
\* sub-entities are recorded before the entity that refers to them.
RECURSIVE ExtractAll(_, _, _)
ExtractAll(h, entities, acc) ==
    IF entities = <<>>
    THEN acc
    ELSE LET entity == Head(entities)
             below == ExtractAll(h, SubEntities(h, entity), acc)
         IN  ExtractAll(h, Tail(entities), RecordEntity(below, h, entity))

ExtractObjectsById(h, entity) == ExtractAll(h, <<entity>>, <<>>)

\* extractObjectsById on a loaded entity and the entity its relation joins.
ExtractDbObjects(id, one) ==
    IF one = Null
    THEN << DbEntityWithId(id) >>
    ELSE << DbEntityWithId(one), DbEntityWithId(id) >>

\* The same logical row: entityTarget and id match.
SameRow(a, b) == a.entityTarget = b.entityTarget /\ a.id = b.id

\* The persisted entities findNotLoadedIds looks up: those with an id that
\* no db entity has.
MissingDbEntities(dbEntities, persistedEntities) ==
    LET HasIdentity(x) == x.id # Null
        NotLoaded(x) == ~ \E i \in 1..Len(dbEntities) : SameRow(dbEntities[i], x)
    IN  SelectSeq(SelectSeq(persistedEntities, HasIdentity), NotLoaded)

\* FindNotLoadedIds without the filter of line 641: a lookup that loads
\* nothing leaves its undefined in the result.
FindNotLoadedIdsUnfiltered(dbEntities, persistedEntities, table) ==
    LET missing == MissingDbEntities(dbEntities, persistedEntities)
    IN  dbEntities \o
        [i \in 1..Len(missing) |->
           IF missing[i].id \in table
           THEN DbEntityWithId(missing[i].id)
           ELSE [id |-> Null, entityTarget |-> "", entity |-> Null]]

\* findNotLoadedIds with every lookup answered: dbEntities, then an entry
\* for each lookup that loaded an entity.
FindNotLoadedIds(dbEntities, persistedEntities, table) ==
    LET missing == MissingDbEntities(dbEntities, persistedEntities)
        NotNull(x) == x.entity # Null
        loaded == [i \in 1..Len(missing) |->
                     IF missing[i].id \in table
                     THEN DbEntityWithId(missing[i].id)
                     ELSE [id |-> Null, entityTarget |-> "", entity |-> Null]]
    IN  dbEntities \o SelectSeq(loaded, NotNull)

\* A PersistOperation: the operations on rows, in the order they are run.
Operation(kind, id, entity) == [kind |-> kind, id |-> id, entity |-> entity]

NoOperation == <<>>

\* The db entities no persisted entity is the same row as: the removes.
Removes(dbEntities, persistedEntities) ==
    LET Absent(x) == ~ \E i \in 1..Len(persistedEntities) :
                          SameRow(persistedEntities[i], x)
        absent == SelectSeq(dbEntities, Absent)
    IN  [i \in 1..Len(absent) |-> Operation("remove", absent[i].id, Null)]

\* buildFullPersistment: a persisted entity is inserted when it has no
\* identity or no db entity has its identity, updated otherwise; a db entity
\* absent from the persisted entities is removed.
BuildFullPersistment(dbEntity, persistedEntity, dbEntities, persistedEntities) ==
    LET Known(x) == /\ x.id # Null
                    /\ \E i \in 1..Len(dbEntities) : SameRow(dbEntities[i], x)
    IN  [i \in 1..Len(persistedEntities) |->
           Operation(IF Known(persistedEntities[i]) THEN "update" ELSE "insert",
                     persistedEntities[i].id, persistedEntities[i].entity)]
        \o Removes(dbEntities, persistedEntities)

\* buildOnlyRemovement: only the removes.
BuildOnlyRemovement(dbEntity, persistedEntity, dbEntities, persistedEntities) ==
    Removes(dbEntities, persistedEntities)

\* The identifier storage generates for an inserted row.
GeneratedId(table) ==
    CHOOSE id \in 1..(MaxId + NumObjs + 1) :
        /\ id \notin table
        /\ \A smaller \in 1..(id - 1) : smaller \in table

\* The id of the row an insert writes.
InsertedId(operation, table) ==
    IF operation.id # Null THEN operation.id ELSE GeneratedId(table)

\* The foreign key written for an entity: the id its related object has now.
ForeignKey(h, entity) ==
    IF h[entity].one = Null THEN Null ELSE h[h[entity].one].id

\* Storage and the caller's objects, as an execution sees and leaves them.
Storage(ok, table, fks, h) == [ok |-> ok, table |-> table, fks |-> fks, h |-> h]

\* One operation of a plan.  Storage refuses a second row with the same
\* primary key; the id of an inserted row is written to the entity.
Apply(operation, st) ==
    CASE operation.kind = "insert" ->
           IF operation.id \in st.table
           THEN [st EXCEPT !.ok = FALSE]
           ELSE LET id == InsertedId(operation, st.table)
                IN  Storage(st.ok, st.table \cup {id},
                            [st.fks EXCEPT ![id] = ForeignKey(st.h, operation.entity)],
                            [st.h EXCEPT ![operation.entity].id = id])
      [] operation.kind = "update" ->
           IF operation.id \in st.table
           THEN [st EXCEPT !.fks[operation.id] = ForeignKey(st.h, operation.entity)]
           ELSE st
      [] operation.kind = "remove" ->
           [st EXCEPT !.table = @ \ {operation.id}, !.fks[operation.id] = Null]
      [] OTHER -> st

\* The operations of a plan, run in order.
RECURSIVE Executed(_, _)
Executed(operations, st) ==
    IF operations = <<>>
    THEN st
    ELSE Executed(Tail(operations), Apply(Head(operations), st))

\* The locals of one call of persist / remove, with what it has done so far
\* (events) and the entities findNotLoadedIds looked up for it (lookups).
NewPipeline ==
    [pc |-> "start", loadedDbEntity |-> Null, loadedOne |-> Null,
     allPersistedEntities |-> <<>>, entityWithIds |-> <<>>,
     allDbEntities |-> <<>>, persistOperation |-> NoOperation,
     events |-> <<>>, lookups |-> <<>>, error |-> NoError]

\* Promise.all over the calls, after call e has moved: it rejects with the
\* first rejection and resolves once every call has returned.
PromiseAll(calls_, e) ==
    IF pOutcome.state # "pending" THEN pOutcome
    ELSE IF calls_[e].pc = "failed" THEN Rejected({calls_[e].error})
    ELSE IF \A x \in 1..pLen : calls_[x].pc = "done" THEN Resolved(Null)
    ELSE pOutcome

Advance(e, call) ==
    /\ pipe' = [pipe EXCEPT ![e] = call]
    /\ pOutcome' = PromiseAll([pipe EXCEPT ![e] = call], e)

\* FailWith with the rejection swallowed: the call goes on to build its plan.
FailWithSwallowed(e, call, err) ==
    Advance(e, [call EXCEPT !.pc = "build", !.error = err])

\* The call of entity e throws, or a promise it awaits rejects.
FailWith(e, call, err) == Advance(e, [call EXCEPT !.pc = "failed", !.error = err])

Fail(e, err) == FailWith(e, pipe[e], err)

\* What the call of entity e has done so far, with one more event.
Event(e, name) == Append(pipe[e].events, name)

EntityWithId(h, entity) ==
    [id |-> h[entity].id, entityTarget |-> Metadata.target, entity |-> entity]

\* persist, after await Promise.resolve(): the requested graph is collected.
PersistCollect(e) ==
    /\ pOp = "persist"
    /\ pipe[e].pc = "start"
    /\ Advance(e, [pipe[e] EXCEPT
                     !.pc = "preload",
                     !.events = Event(e, "collect"),
                     !.allPersistedEntities = ExtractObjectsById(heap, e)])
    /\ UNCHANGED <<heap, pOp, pLen, dbRows, dbOne, applied>>
    /\ UNCHANGED <<collectVars, relVars, txVars>>

\* if (this.hasId(entity)) loadedDbEntity = await this.preload(entity);
PersistPreload(e) ==
    /\ pOp = "persist"
    /\ pipe[e].pc = "preload"
    /\ \/ /\ ~HasId(heap[e])
          /\ Advance(e, [pipe[e] EXCEPT !.pc = "extractDb"])
       \/ /\ HasId(heap[e])
          /\ Advance(e, [pipe[e] EXCEPT
                           !.pc = "extractDb",
                           !.events = Event(e, "preload"),
                           !.loadedDbEntity = Preload(dbRows, heap[e].id),
                           !.loadedOne = PreloadOne(dbRows, dbOne, heap[e].id)])
       \/ /\ HasId(heap[e])
          /\ FailWith(e, [pipe[e] EXCEPT !.events = Event(e, "preload")],
                      Error("preload", 1))
    /\ UNCHANGED <<heap, pOp, pLen, dbRows, dbOne, applied>>
    /\ UNCHANGED <<collectVars, relVars, txVars>>

\* PersistExtractDb going straight to the plan, without findNotLoadedIds.
PersistExtractDbThenBuild(e) ==
    /\ pOp = "persist"
    /\ pipe[e].pc = "extractDb"
    /\ Advance(e, [pipe[e] EXCEPT !.pc = "build"])
    /\ UNCHANGED <<heap, pOp, pLen, dbRows, dbOne, applied>>
    /\ UNCHANGED <<collectVars, relVars, txVars>>

\* if (loadedDbEntity) entityWithIds = await this.extractObjectsById(...);
PersistExtractDb(e) ==
    /\ pOp = "persist"
    /\ pipe[e].pc = "extractDb"
    /\ Advance(e, [pipe[e] EXCEPT
                     !.pc = "find",
                     !.entityWithIds =
                         IF pipe[e].loadedDbEntity # Null
                         THEN ExtractDbObjects(pipe[e].loadedDbEntity,
                                               pipe[e].loadedOne)
                         ELSE <<>>])
    /\ UNCHANGED <<heap, pOp, pLen, dbRows, dbOne, applied>>
    /\ UNCHANGED <<collectVars, relVars, txVars>>

\* allDbEntities = await this.findNotLoadedIds(entityWithIds, allPersisted);
\* a lookup it issues may fail.
PersistFindNotLoadedIds(e) ==
    /\ pOp = "persist"
    /\ pipe[e].pc = "find"
    /\ LET missing == MissingDbEntities(pipe[e].entityWithIds,
                                        pipe[e].allPersistedEntities)
       IN  \/ Advance(e, [pipe[e] EXCEPT
                            !.pc = "build",
                            !.events = Event(e, "lookups"),
                            !.lookups = missing,
                            !.allDbEntities =
                                FindNotLoadedIds(pipe[e].entityWithIds,
                                                 pipe[e].allPersistedEntities,
                                                 dbRows)])
           \/ /\ missing # <<>>
              /\ FailWith(e, [pipe[e] EXCEPT !.lookups = missing],
                          Error("findOneById", 1))
    /\ UNCHANGED <<heap, pOp, pLen, dbRows, dbOne, applied>>
    /\ UNCHANGED <<collectVars, relVars, txVars>>

\* persistOperation = await buildFullPersistment(...), from the entity as it
\* is now.
PersistBuild(e) ==
    /\ pOp = "persist"
    /\ pipe[e].pc = "build"
    /\ Advance(e, [pipe[e] EXCEPT
                     !.pc = "execute",
                     !.events = Event(e, "build"),
                     !.persistOperation =
                         BuildFullPersistment(
                             DbEntityWithId(pipe[e].loadedDbEntity),
                             EntityWithId(heap, e),
                             pipe[e].allDbEntities,
                             pipe[e].allPersistedEntities)])
    /\ UNCHANGED <<heap, pOp, pLen, dbRows, dbOne, applied>>
    /\ UNCHANGED <<collectVars, relVars, txVars>>

\* RemovePreload without line 201: the entity keeps its id.
RemovePreloadKeepsId(e) ==
    /\ pOp = "remove"
    /\ pipe[e].pc = "start"
    /\ IF Preload(dbRows, heap[e].id) = Null
       THEN FailWith(e, [pipe[e] EXCEPT !.events = Event(e, "preload")],
                     Error("TypeError", 1))
       ELSE Advance(e, [pipe[e] EXCEPT
                          !.pc = "extract",
                          !.events = Event(e, "preload"),
                          !.loadedDbEntity = Preload(dbRows, heap[e].id),
                          !.loadedOne = PreloadOne(dbRows, dbOne, heap[e].id)])
    /\ UNCHANGED <<heap, pOp, pLen, dbRows, dbOne, applied>>
    /\ UNCHANGED <<collectVars, relVars, txVars>>

\* remove: dbEntity = await this.preload(entity); the entity's id is set to
\* undefined; both graphs are collected.  Collecting a null dbEntity throws
\* TypeError (it reads a relation off it).
RemovePreload(e) ==
    /\ pOp = "remove"
    /\ pipe[e].pc = "start"
    /\ \/ /\ FailWith(e, [pipe[e] EXCEPT !.events = Event(e, "preload")],
                      Error("preload", 1))
          /\ UNCHANGED heap
       \/ /\ heap' = [heap EXCEPT ![e].id = Null]
          /\ IF Preload(dbRows, heap[e].id) = Null
             THEN FailWith(e, [pipe[e] EXCEPT !.events = Event(e, "preload")],
                           Error("TypeError", 1))
             ELSE Advance(e, [pipe[e] EXCEPT
                                !.pc = "extract",
                                !.events = Event(e, "preload"),
                                !.loadedDbEntity = Preload(dbRows, heap[e].id),
                                !.loadedOne =
                                    PreloadOne(dbRows, dbOne, heap[e].id)])
    /\ UNCHANGED <<pOp, pLen, dbRows, dbOne, applied>>
    /\ UNCHANGED <<collectVars, relVars, txVars>>

\* remove, after Promise.all of the two collections: the plan is built.
RemoveBuild(e) ==
    /\ pOp = "remove"
    /\ pipe[e].pc = "extract"
    /\ LET dbEntities == ExtractDbObjects(pipe[e].loadedDbEntity,
                                          pipe[e].loadedOne)
           allPersistedEntities == ExtractObjectsById(heap, e)
       IN  Advance(e, [pipe[e] EXCEPT
                         !.pc = "execute",
                         !.events = pipe[e].events \o <<"collect", "build">>,
                         !.entityWithIds = dbEntities,
                         !.allPersistedEntities = allPersistedEntities,
                         !.persistOperation =
                             BuildOnlyRemovement(
                                 DbEntityWithId(pipe[e].loadedDbEntity),
                                 EntityWithId(heap, e),
                                 dbEntities, allPersistedEntities)])
    /\ UNCHANGED <<heap, pOp, pLen, dbRows, dbOne, applied>>
    /\ UNCHANGED <<collectVars, relVars, txVars>>

\* await executePersistOperation(persistOperation): the operations are
\* applied as a whole, generated ids are written to the entities and the
\* call returns; or the execution fails and nothing of the plan is applied.
ExecutePersistOperation(e) ==
    /\ pipe[e].pc = "execute"
    /\ LET st == Executed(pipe[e].persistOperation,
                          Storage(TRUE, dbRows, dbOne, heap))
           call == [pipe[e] EXCEPT !.events = Event(e, "execute")]
       IN  \/ /\ st.ok
              /\ dbRows' = st.table
              /\ dbOne' = st.fks
              /\ heap' = st.h
              /\ applied' = applied \cup {e}
              /\ Advance(e, [call EXCEPT !.pc = "done"])
           \/ /\ FailWith(e, call, Error("executePersistOperation", 1))
              /\ UNCHANGED <<heap, dbRows, dbOne, applied>>
    /\ UNCHANGED <<pOp, pLen>>
    /\ UNCHANGED <<collectVars, relVars, txVars>>

(***************************************************************************)
(* The initial states and the specifications, one per part.                *)
(***************************************************************************)
HeapOff == heap = [o \in Objs |-> EmptyObject]

CollectOff ==
    /\ calls = <<>>
    /\ stack = <<>>
    /\ entityWithIds = <<>>
    /\ cstatus = "off"

TxOff ==
    /\ txPc = "off"
    /\ txLog = <<>>
    /\ txResult = Null
    /\ runInTransactionResult = Null
    /\ txErr = NoError
    /\ txRollbackErr = NoError
    /\ txOutcome = Pending

RelOff ==
    /\ rows = [t \in FkTables |-> [id \in Ids |-> Null]]
    /\ junction = [t \in JunctionTables |-> {}]
    /\ relCall = NoCall("missing")
    /\ relPhase = "off"
    /\ issued = {}
    /\ pending = {}
    /\ stmtFailed = FALSE
    /\ relResult = "none"
    /\ preRows = rows
    /\ preJunction = junction

PersistOff ==
    /\ pOp = "off"
    /\ pLen = 0
    /\ dbRows = {}
    /\ dbOne = [id \in RowIds |-> Null]
    /\ pipe = [e \in 1..MaxEntities |-> [NewPipeline EXCEPT !.pc = "absent"]]
    /\ applied = {}
    /\ pOutcome = Pending

InitCollect ==
    /\ RelOff
    /\ TxOff
    /\ PersistOff
    /\ \E g \in {x \in Graphs(MaxRefs) : Canonical(x)} :
         \E ids \in [Objs -> {Null} \cup Ids] :
            /\ \A o \in Objs \ Reachable(g) : ids[o] = Null
            /\ heap = [o \in Objs |-> [g[o] EXCEPT !.id = ids[o]]]
    /\ calls = << [entity |-> Root, parent |-> 0, resolved |-> FALSE] >>
    /\ stack = << [call |-> 1, pos |-> 0] >>
    /\ entityWithIds = <<>>
    /\ cstatus = "sync"

\* The table a relation of Post is stored in.
StoredIn(propertyName) ==
    IF ~HasRelationWithPropertyName(propertyName)
    THEN {}
    ELSE LET relation == FindRelationWithPropertyName(propertyName)
         IN  IF relation.isManyToMany THEN {relation.junctionTable}
             ELSE IF relation.isOwning THEN {relation.table}
             ELSE {relation.inverseTable}

\* A behaviour exercises one property name of Post; the table that relation
\* is stored in holds any contents, the other tables the fixture's rows
\* (every relation null, every junction table empty).
InitRelation ==
    /\ HeapOff
    /\ CollectOff
    /\ TxOff
    /\ PersistOff
    /\ \E p \in PropertyNames :
         /\ relCall = NoCall(p)
         /\ rows \in [FkTables -> [Ids -> Ids \cup {Null}]]
         /\ junction \in [JunctionTables -> SUBSET (Ids \X Ids)]
         /\ \A t \in FkTables \ StoredIn(p) : rows[t] = [id \in Ids |-> Null]
         /\ \A t \in JunctionTables \ StoredIn(p) : junction[t] = {}
    /\ relPhase = "idle"
    /\ issued = {}
    /\ pending = {}
    /\ stmtFailed = FALSE
    /\ relResult = "none"
    /\ preRows = rows
    /\ preJunction = junction

\* transaction is called; runInTransactionResult is declared, unassigned.
InitTx ==
    /\ HeapOff
    /\ CollectOff
    /\ RelOff
    /\ PersistOff
    /\ txPc = "begin"
    /\ txLog = <<>>
    /\ txResult = Null
    /\ runInTransactionResult = Null
    /\ txErr = NoError
    /\ txRollbackErr = NoError
    /\ txOutcome = Pending

\* The foreign keys storage starts with: a row that refers to another row is
\* not referred to itself, and the row it refers to refers to none.
InitialForeignKeys(table) ==
    {fks \in [RowIds -> {Null} \cup Ids] :
        \A id \in RowIds :
            fks[id] # Null => /\ id \in table \cap Ids
                              /\ fks[id] \in table \ {id}
                              /\ fks[fks[id]] = Null}

\* persist or remove is called with an array of pLen distinct entities
\* without relations, each with or without an id.
InitArray ==
    /\ pLen \in 1..MaxEntities
    /\ \E ids \in [1..pLen -> {Null, EmptyString} \cup Ids] :
         heap = [o \in Objs |->
                   IF o \in 1..pLen THEN [EmptyObject EXCEPT !.id = ids[o]]
                   ELSE EmptyObject]
    /\ dbRows \in SUBSET ({EmptyString} \cup Ids)
    /\ dbOne = [id \in RowIds |-> Null]

\* persist or remove is called with one entity, object 1, whose relation
\* "one" holds object 2; the rows have foreign keys.
InitRelated ==
    /\ pLen = 1
    /\ \E ids \in [1..2 -> {Null, EmptyString} \cup Ids] :
         heap = [o \in Objs |->
                   IF o = 1 THEN [EmptyObject EXCEPT !.id = ids[1], !.one = 2]
                   ELSE IF o = 2 THEN [EmptyObject EXCEPT !.id = ids[2]]
                   ELSE EmptyObject]
    /\ dbRows \in SUBSET ({EmptyString} \cup Ids)
    /\ dbOne \in InitialForeignKeys(dbRows)

\* persist or remove is called with one entity, object 1, whose relation
\* "many" holds the distinct objects 2 and 3.
InitTwins ==
    /\ pLen = 1
    /\ \E ids \in [1..3 -> {Null} \cup Ids] :
         heap = [o \in Objs |->
                   IF o = 1 THEN [EmptyObject EXCEPT !.id = ids[1], !.many = <<2, 3>>]
                   ELSE [EmptyObject EXCEPT !.id = ids[o]]]
    /\ dbRows \in SUBSET Ids
    /\ dbOne = [id \in RowIds |-> Null]

\* persist or remove is called with the array of objects 1 and 2, whose
\* relation "one" holds the same object 3.
InitShared ==
    /\ pLen = 2
    /\ \E ids \in [1..3 -> {Null} \cup Ids] :
         heap = [o \in Objs |->
                   IF o \in 1..2 THEN [EmptyObject EXCEPT !.id = ids[o], !.one = 3]
                   ELSE [EmptyObject EXCEPT !.id = ids[o]]]
    /\ dbRows \in SUBSET Ids
    /\ dbOne = [id \in RowIds |-> Null]

InitPersist ==
    /\ CollectOff
    /\ RelOff
    /\ TxOff
    /\ pOp \in {"persist", "remove"}
    /\ InitArray \/ InitRelated \/ InitTwins \/ InitShared
    /\ pipe = [e \in 1..MaxEntities |->
                 IF e <= pLen THEN NewPipeline
                 ELSE [NewPipeline EXCEPT !.pc = "absent"]]
    /\ applied = {}
    /\ pOutcome = Pending

NextCollect ==
    \/ ExtractRecurse
    \/ ExtractStackOverflow
    \/ ExtractReturn
    \/ \E c \in 1..Len(calls) : ExtractThen(c)

SpecCollect == InitCollect /\ [][NextCollect]_vars

NextRelation ==
    \/ CallSetRelation
    \/ CallSetInverseRelation
    \/ CallAddToRelation
    \/ CallAddToInverseRelation
    \/ CallRemoveFromRelation
    \/ CallRemoveFromInverseRelation
    \/ CallAddAndRemoveFromRelation
    \/ CallAddAndRemoveFromInverseRelation
    \/ ExecuteUpdate
    \/ ExecuteInsert
    \/ ExecuteDelete

SpecRelation == InitRelation /\ [][NextRelation]_vars

NextTx ==
    \/ TxBegin
    \/ TxRun
    \/ TxCommit
    \/ TxCatch
    \/ TxRethrow
    \/ TxResult

SpecTx == InitTx /\ [][NextTx]_vars

NextPersist ==
    \E e \in 1..MaxEntities :
        \/ PersistCollect(e)
        \/ PersistPreload(e)
        \/ PersistExtractDb(e)
        \/ PersistFindNotLoadedIds(e)
        \/ PersistBuild(e)
        \/ RemovePreload(e)
        \/ RemoveBuild(e)
        \/ ExecutePersistOperation(e)

SpecPersist == InitPersist /\ [][NextPersist]_vars

(***************************************************************************)
(* Properties of the graph collector.                                      *)
(***************************************************************************)
Entries == 1..Len(entityWithIds)

\* C1: graph collection terminates on every finite object graph, cyclic
\* ones included: it never dies of unbounded recursion and completes with a
\* finite list.
C1_CollectionTerminates == cstatus # "overflow"

\* C2 (as claimed): in the returned list no two entries have the same
\* entityTarget and the same non-null id, even when two distinct in-memory
\* objects carry the same type and id.
C2_UniqueByRowIdentity ==
    cstatus = "done" =>
        \A i, j \in Entries :
            (/\ entityWithIds[i].entityTarget = entityWithIds[j].entityTarget
             /\ entityWithIds[i].id = entityWithIds[j].id
             /\ entityWithIds[i].id # Null) => i = j

\* C2 (amended): the returned list holds exactly one entry per distinct
\* reachable object reference, carrying that object's type and primary
\* column; entries are told apart by reference only, whatever their ids.
C2_UniqueByReference ==
    cstatus = "done" =>
        /\ \A i, j \in Entries :
              entityWithIds[i].entity = entityWithIds[j].entity => i = j
        /\ {entityWithIds[i].entity : i \in Entries} = Reachable(heap)
        /\ \A i \in Entries :
              /\ entityWithIds[i].id = heap[entityWithIds[i].entity].id
              /\ entityWithIds[i].entityTarget = Metadata.target

\* A collection that completed on a graph where one object is reached by two
\* paths and two distinct objects carry the same non-null id.
C2_Witness ==
    /\ cstatus = "done"
    /\ Len(calls) > Len(entityWithIds)
    /\ \E i, j \in Entries :
          /\ i # j
          /\ entityWithIds[i].id = entityWithIds[j].id
          /\ entityWithIds[i].id # Null

(***************************************************************************)
(* Properties of the relation operations.                                  *)
(***************************************************************************)
CalledRelation == FindRelationWithPropertyName(relCall.relation)

CalledManyToMany ==
    HasRelationWithPropertyName(relCall.relation) /\ CalledRelation.isManyToMany

CalledSingleValued ==
    HasRelationWithPropertyName(relCall.relation) /\ ~CalledRelation.isManyToMany

StorageUnchanged == rows = preRows /\ junction = preJunction

\* The junction row that relates entity e to related entity r.
Pair(relation, e, r) == IF relation.isOwning THEN <<e, r>> ELSE <<r, e>>

Pairs(relation, e, rs) == {Pair(relation, e, r) : r \in rs}

\* The related ids of entity e in a junction table.
RelatedOf(relation, table, e) == {r \in Ids : Pair(relation, e, r) \in table}

\* C3: removeFromRelation and removeFromInverseRelation on a many-to-many
\* relation with an empty or null id list issue no statement, leave the
\* storage as it was and resolve.
C3_EmptyRemoveIsNoOp ==
    (/\ relCall.op \in {"removeFromRelation", "removeFromInverseRelation"}
     /\ CalledManyToMany
     /\ (relCall.remove.isNull \/ relCall.remove.ids = <<>>))
    => /\ issued = {}
       /\ StorageUnchanged
       /\ relResult = "resolved"

\* removeFromRelation with an empty list was called for an owner that has
\* pairs in the junction table.
C3_Witness ==
    /\ relCall.op = "removeFromRelation"
    /\ CalledManyToMany
    /\ ~relCall.remove.isNull
    /\ relCall.remove.ids = <<>>
    /\ relPhase = "done"
    /\ RelatedOf(CalledRelation, junction[CalledRelation.junctionTable],
                 relCall.entityId) # {}

\* The call is addAndRemoveFromRelation(relation, e, D \ C, C \ D) for the
\* current related set C of e and some desired set D.
IsPairDiff ==
    /\ relCall.op = "addAndRemoveFromRelation"
    /\ CalledManyToMany
    /\ ~relCall.add.isNull
    /\ ~relCall.remove.isNull
    /\ LET C == RelatedOf(CalledRelation, preJunction[CalledRelation.junctionTable],
                          relCall.entityId)
       IN  /\ Elements(relCall.add.ids) \cap C = {}
           /\ Elements(relCall.remove.ids) \subseteq C

\* C4: addAndRemoveFromRelation(relation, e, D \ C, C \ D) ends, whatever
\* the order in which its statements are executed, with the junction table
\* holding what it held minus the pairs (e, r), r in C \ D, plus the pairs
\* (e, r), r in D \ C: e is then related to exactly D, the pairs of the other
\* owners and the other tables are unchanged, and the call resolves.
C4_PairDiff ==
    (IsPairDiff /\ relPhase = "done") =>
        LET relation == CalledRelation
            t == relation.junctionTable
            e == relCall.entityId
            add == Elements(relCall.add.ids)
            remove == Elements(relCall.remove.ids)
            C == RelatedOf(relation, preJunction[t], e)
        IN  /\ junction[t] = (preJunction[t] \ Pairs(relation, e, remove))
                                \cup Pairs(relation, e, add)
            /\ RelatedOf(relation, junction[t], e) = (C \ remove) \cup add
            /\ \A o \in Ids \ {e} :
                  RelatedOf(relation, junction[t], o) = RelatedOf(relation, preJunction[t], o)
            /\ \A u \in JunctionTables \ {t} : junction[u] = preJunction[u]
            /\ rows = preRows
            /\ relResult = "resolved"

\* A pair diff that inserts and deletes has ended, on a junction table that
\* also holds a pair of another owner.
C4_Witness ==
    /\ IsPairDiff
    /\ relPhase = "done"
    /\ relCall.add.ids # <<>>
    /\ relCall.remove.ids # <<>>
    /\ \E o \in Ids \ {relCall.entityId} :
          RelatedOf(CalledRelation, junction[CalledRelation.junctionTable], o) # {}

\* C7: setRelation on a single-valued relation with an array as
\* relatedEntityId rejects, issues no storage update and leaves every row as
\* it was.
C7_ArrayValueRejected ==
    (/\ relCall.op = "setRelation"
     /\ CalledSingleValued
     /\ relCall.value.isArray)
    => /\ issued = {}
       /\ StorageUnchanged
       /\ relResult = "rejected"

SetOps == {"setRelation", "setInverseRelation"}

ManyToManyOps ==
    {"addToRelation", "addToInverseRelation", "removeFromRelation",
     "removeFromInverseRelation", "addAndRemoveFromRelation",
     "addAndRemoveFromInverseRelation"}

\* The call made is invalid for its relation.
InvalidCall ==
    /\ relCall.op # "none"
    /\ \/ ~HasRelationWithPropertyName(relCall.relation)
       \/ relCall.op \in SetOps /\ CalledManyToMany
       \/ relCall.op \in ManyToManyOps /\ CalledSingleValued

\* C8: a relation operation that is invalid for its relation (a set on a
\* many-to-many relation, an add or remove on a single-valued one, any
\* operation on a name that is no relation) rejects without issuing a
\* statement and leaves the storage unchanged, also with an empty id list.
C8_InvalidRejectsBeforeStorage ==
    InvalidCall =>
        /\ relResult = "rejected"
        /\ issued = {}
        /\ StorageUnchanged

\* removeFromRelation was called with an empty list on a single-valued
\* relation whose table holds a relation value.
C8_Witness ==
    /\ InvalidCall
    /\ relCall.op = "removeFromRelation"
    /\ CalledSingleValued
    /\ ~relCall.remove.isNull
    /\ relCall.remove.ids = <<>>
    /\ relPhase = "done"
    /\ \E t \in FkTables, id \in Ids : rows[t][id] # Null

\* C9: a resolved setRelation(relation, entityId, relatedEntityId) on a
\* single-valued relation relates entityId to relatedEntityId and changes
\* nothing else.  On the owning side the row entityId gets the foreign key
\* relatedEntityId; on the other side the related row relatedEntityId gets
\* the foreign key entityId, and null clears the foreign key of the rows
\* that reference entityId.
C9_SetRelationRelates ==
    (/\ relCall.op = "setRelation"
     /\ CalledSingleValued
     /\ ~relCall.value.isArray
     /\ relPhase = "done")
    => LET relation == CalledRelation
           e == relCall.entityId
           r == relCall.value.id
       IN  /\ junction = preJunction
           /\ relResult = "resolved"
           /\ rows = IF relation.isOwning
                     THEN [preRows EXCEPT ![relation.table][e] = r]
                     ELSE IF r # Null
                          THEN [preRows EXCEPT ![relation.inverseTable][r] = e]
                          ELSE [preRows EXCEPT ![relation.inverseTable] =
                                   [id \in Ids |-> IF @[id] = e THEN Null ELSE @[id]]]

(***************************************************************************)
(* Properties of transaction.                                              *)
(***************************************************************************)
\* How many times a driver method or the callback was invoked.
Invocations(name) == Cardinality({i \in 1..Len(txLog) : txLog[i] = name})

\* The callback threw (or its promise rejected) or commitTransaction failed.
CallbackOrCommitFailed == txErr.from \in {"runInTransaction", "commitTransaction"}

\* C5 (as claimed): when the callback or the commit fails and the rollback
\* fails too, the rejection delivered to the caller carries both the original
\* error and the rollback error.
C5_BothErrorsCarried ==
    (txPc = "done" /\ CallbackOrCommitFailed /\ txRollbackErr # NoError)
    => /\ txOutcome.state = "rejected"
       /\ {txErr, txRollbackErr} \subseteq txOutcome.errors

\* C5 (amended): when the callback or the commit fails and the rollback
\* fails too, the caller gets a rejection that carries the original error
\* alone; the rollback error is dropped.
C5_OnlyOriginalCarried ==
    (txPc = "done" /\ CallbackOrCommitFailed /\ txRollbackErr # NoError)
    => /\ txOutcome.state = "rejected"
       /\ txOutcome.errors = {txErr}
       /\ txRollbackErr \notin txOutcome.errors

\* The commit failed, the rollback failed, and the caller has its rejection.
C5_Witness ==
    /\ txPc = "done"
    /\ txErr.from = "commitTransaction"
    /\ txRollbackErr # NoError
    /\ txOutcome.state = "rejected"

\* C6: once the callback threw or commitTransaction failed, the promise
\* never resolves and rollbackTransaction is invoked at most once; when the
\* chain has ended, rollbackTransaction was invoked exactly once and the
\* promise is rejected with the original error, whether the rollback
\* succeeded or not.
C6_RollbackOnceAndRethrow ==
    CallbackOrCommitFailed
    => /\ txOutcome.state # "resolved"
       /\ Invocations("rollbackTransaction") <= 1
       /\ txPc = "done" =>
             /\ Invocations("rollbackTransaction") = 1
             /\ txOutcome.state = "rejected"
             /\ txErr \in txOutcome.errors

\* The callback threw, the rollback succeeded, and the caller has its
\* rejection.
C6_Witness ==
    /\ txPc = "done"
    /\ txErr.from = "runInTransaction"
    /\ txRollbackErr = NoError
    /\ txOutcome.state = "rejected"


(***************************************************************************)
(* Properties of persist and remove on an array.                           *)
(***************************************************************************)
AllCallsEnded == \A e \in 1..pLen : pipe[e].pc \in {"done", "failed"}

\* The execution of the plan of some entity of the array failed.
SomePlanFailed ==
    \E e \in 1..pLen : /\ pipe[e].pc = "failed"
                        /\ pipe[e].error.from = "executePersistOperation"

\* C10: a persist(entities[]) or remove(entities[]) call that rejects leaves
\* no partial writes: once every entity's call has ended, the plan of at
\* least one entity has failed and the promise of the whole call is
\* rejected, either the operations of all the entities of the array are
\* applied or none is.
C10_AllOrNothing ==
    (AllCallsEnded /\ SomePlanFailed /\ pOutcome.state = "rejected")
    => (applied = {} \/ applied = 1..pLen)

(***************************************************************************)
(* Properties of one call of persist or remove.                            *)
(***************************************************************************)
Happened(e, name) == \E i \in 1..Len(pipe[e].events) : pipe[e].events[i] = name

\* The entry the collection recorded for the root of call e.
RootEntries(e) ==
    {pipe[e].allPersistedEntities[i] : i \in 1..Len(pipe[e].allPersistedEntities)}
        \cap {x \in [id : {Null, EmptyString} \cup RowIds,
                     entityTarget : {Metadata.target}, entity : {e}] : TRUE}

\* A read against storage was issued for the root of call e, or the db
\* entities hold an entry for its row.
RootReadOrLoaded(e) ==
    \/ Happened(e, "preload")
    \/ \E i \in 1..Len(pipe[e].lookups) : pipe[e].lookups[i].entity = e
    \/ \E x \in RootEntries(e) :
         \E i \in 1..Len(pipe[e].allDbEntities) : SameRow(pipe[e].allDbEntities[i], x)

\* C11: when persist is called on a root whose identifier is unset, null or
\* the empty string, no read against storage (full-graph reload or point
\* lookup) is issued for the root, and the db entities handed to the planner
\* hold no entry for it.
C11_NoReadForRootWithoutId ==
    \A e \in 1..pLen :
        (pOp = "persist" /\ \E x \in RootEntries(e) : x.id \in {Null, EmptyString})
        => ~RootReadOrLoaded(e)

\* The same for a root whose identifier is unset or null.
NullRootIsPureInsert ==
    \A e \in 1..pLen :
        (pOp = "persist" /\ \E x \in RootEntries(e) : x.id = Null)
        => ~RootReadOrLoaded(e)

\* The positions of the persisted entities that have an identity no db
\* entity has.
NotLoadedPositions(dbEntities, persistedEntities) ==
    {i \in 1..Len(persistedEntities) :
        /\ persistedEntities[i].id # Null
        /\ \A j \in 1..Len(dbEntities) :
              ~(/\ dbEntities[j].entityTarget = persistedEntities[i].entityTarget
                /\ dbEntities[j].id = persistedEntities[i].id)}

\* findNotLoadedIds of call e returns: what it looked up and what it returns.
FindNotLoadedIdsReturns(e) ==
    LET dbEntities == pipe[e].entityWithIds
        persisted == pipe[e].allPersistedEntities
        wanted == NotLoadedPositions(dbEntities, persisted)
        found == {i \in wanted : persisted[i].id \in dbRows}
        lookups == pipe'[e].lookups
        result == pipe'[e].allDbEntities
        added == SubSeq(result, Len(dbEntities) + 1, Len(result))
    IN  /\ Len(lookups) = Cardinality(wanted)
        /\ {lookups[i] : i \in 1..Len(lookups)} = {persisted[i] : i \in wanted}
        /\ Len(result) >= Len(dbEntities)
        /\ SubSeq(result, 1, Len(dbEntities)) = dbEntities
        /\ Len(added) = Cardinality(found)
        /\ \A i \in 1..Len(added) : /\ added[i].entityTarget = Metadata.target
                                    /\ added[i].id \in dbRows
        /\ {added[i].id : i \in 1..Len(added)} = {persisted[i].id : i \in found}

\* C12: findNotLoadedIds issues a point lookup for exactly the requested
\* entities that have a non-null identity and no (entityTarget, id) match
\* among the loaded db entities; it returns the loaded db entities followed
\* by one entry for each lookup that found a row, and a lookup that finds
\* nothing adds no entry.
C12_LookupsExact ==
    [][\A e \in 1..MaxEntities :
          (pipe[e].pc = "find" /\ pipe'[e].pc = "build")
          => FindNotLoadedIdsReturns(e)]_vars

\* findNotLoadedIds has returned for a call with two lookups, one that found
\* a row and one that found none.
C12_Witness ==
    \E e \in 1..pLen :
        /\ Happened(e, "lookups")
        /\ Len(pipe[e].lookups) = 2
        /\ Len(pipe[e].allDbEntities) = Len(pipe[e].entityWithIds) + 1

\* A read of the load phase of call e failed.
LoadFailed(e) == pipe[e].error.from \in {"preload", "findOneById"}

\* C13: if the full-graph reload or a point lookup of findNotLoadedIds fails
\* during persist, the call of that entity rejects with that error, neither
\* buildFullPersistment nor executePersistOperation is ever invoked for it,
\* and no write of it reaches storage.
C13_LoadFailureAbortsBeforePlan ==
    \A e \in 1..pLen :
        (pOp = "persist" /\ LoadFailed(e))
        => /\ pipe[e].pc = "failed"
           /\ pOutcome.state = "rejected"
           /\ pLen = 1 => pOutcome.errors = {pipe[e].error}
           /\ ~Happened(e, "build")
           /\ ~Happened(e, "execute")
           /\ pipe[e].persistOperation = NoOperation
           /\ e \notin applied

\* A persist of one entity whose reload succeeded and whose point lookup
\* failed.
C13_Witness ==
    /\ pOp = "persist"
    /\ pLen = 1
    /\ pipe[1].error.from = "findOneById"
    /\ Happened(1, "preload")
    /\ pipe[1].pc = "failed"

Count(e, name) ==
    Cardinality({i \in 1..Len(pipe[e].events) : pipe[e].events[i] = name})

IsPrefix(s, t) == Len(s) <= Len(t) /\ SubSeq(t, 1, Len(s)) = s

\* The root of call e had an id when its graph was collected.
RootHadId(e) ==
    \E x \in RootEntries(e) : x.id # Null /\ x.id # EmptyString

\* C14: in every call of persist the events occur in the order collection,
\* full-graph reload (only if the entity has an id), completion of the point
\* lookups, buildFullPersistment, executePersistOperation, each at most
\* once; the plan is built only after the reads; in persist and remove a plan
\* is handed to the executor at most once, by the call that built it, and
\* exactly once when the call has returned.
C14_EventsInOrder ==
    \A e \in 1..pLen :
        /\ pOp = "persist" =>
             /\ \/ IsPrefix(pipe[e].events,
                            <<"collect", "preload", "lookups", "build", "execute">>)
                \/ IsPrefix(pipe[e].events,
                            <<"collect", "lookups", "build", "execute">>)
             /\ Happened(e, "preload") => RootHadId(e)
             /\ (Happened(e, "lookups") /\ RootHadId(e)) => Happened(e, "preload")
        /\ Count(e, "build") <= 1
        /\ Count(e, "execute") <= Count(e, "build")
        /\ pipe[e].pc = "execute" => (Count(e, "build") = 1 /\ Count(e, "execute") = 0)
        /\ pipe[e].pc = "done" => Count(e, "execute") = 1
        /\ e \in applied => Count(e, "execute") = 1

\* A persist of an array of two entities has returned: both calls went
\* through their steps, one with a reload and one without.
C14_Witness ==
    /\ pOp = "persist"
    /\ pLen = 2
    /\ pipe[1].pc = "done"
    /\ pipe[2].pc = "done"
    /\ pipe[1].events = <<"collect", "preload", "lookups", "build", "execute">>
    /\ pipe[2].events = <<"collect", "lookups", "build", "execute">>

(***************************************************************************)
(* Properties of remove.                                                   *)
(***************************************************************************)
\* The sets handed to buildOnlyRemovement by call e.
DbEntitiesOf(e) ==
    {pipe[e].entityWithIds[i] : i \in 1..Len(pipe[e].entityWithIds)}

RequestedOf(e) ==
    {pipe[e].allPersistedEntities[i] : i \in 1..Len(pipe[e].allPersistedEntities)}

\* The related entities the caller's object references with an id.
RelatedWithId(e) == {x \in RequestedOf(e) : x.entity # e /\ x.id # Null}

InDb(e, x) == \E d \in DbEntitiesOf(e) : SameRow(d, x)

InRequested(e, x) == \E r \in RequestedOf(e) : SameRow(r, x)

\* The remove of call e has built its plan (so the row of e existed).
RemoveBuilt(e) == pOp = "remove" /\ Happened(e, "build")

\* C15 (as claimed): in remove(entity) for an entity whose row exists, the
\* root's row is among the db entities and has no counterpart in the
\* requested set, and every related entity the caller's object references
\* with its id is in both sets.
C15_RootAbsentRelatedInBoth ==
    \A e \in 1..pLen :
        RemoveBuilt(e)
        => /\ InDb(e, DbEntityWithId(pipe[e].loadedDbEntity))
           /\ ~InRequested(e, DbEntityWithId(pipe[e].loadedDbEntity))
           /\ \A x \in RelatedWithId(e) : InDb(e, x) /\ InRequested(e, x)

\* C15 (amended): the root's row is among the db entities and the root's own
\* requested entry has no identity, so only another requested object with
\* the same identity is a counterpart of the root's row; a related entity
\* referenced with its id is in the requested set, and in the db entities
\* exactly when the reloaded graph holds its row.
C15_RootClearedRelatedAsLoaded ==
    \A e \in 1..pLen :
        RemoveBuilt(e)
        => /\ InDb(e, DbEntityWithId(pipe[e].loadedDbEntity))
           /\ \A r \in RequestedOf(e) : r.entity = e => r.id = Null
           /\ \A r \in RequestedOf(e) :
                 SameRow(r, DbEntityWithId(pipe[e].loadedDbEntity)) => r.entity # e
           /\ \A x \in RelatedWithId(e) :
                 /\ InRequested(e, x)
                 /\ InDb(e, x) <=> x.id \in {pipe[e].loadedDbEntity, pipe[e].loadedOne}

\* A remove has built its plan for a root whose related entity, referenced
\* with its id, was reloaded with it.
C15_Witness ==
    \E e \in 1..pLen :
        /\ RemoveBuilt(e)
        /\ \E x \in RelatedWithId(e) : x.id = pipe[e].loadedOne
        /\ pipe[e].loadedOne # pipe[e].loadedDbEntity

(***************************************************************************)
(* Further properties of the graph collector.                              *)
(***************************************************************************)
\* The invocations of extractObjectsById made so far on an entity.
InvocationsOn(entity) == {c \in 1..Len(calls) : calls[c].entity = entity}

\* C16: during one graph collection no object reference is walked twice: in
\* an acyclic graph, an object reachable through several relation paths has
\* its relations traversed by at most one invocation.
C16_WalkedAtMostOnce ==
    ~Cyclic(heap) => \A o \in Objs : Cardinality(InvocationsOn(o)) <= 1

\* The entries recorded so far for an object reference.
EntriesOf(o) == {i \in Entries : entityWithIds[i].entity = o}

\* C17: on an acyclic graph, under every interleaving of the then-callbacks
\* that share the accumulator, no object reference is ever recorded twice,
\* only reachable ones are recorded, an invocation that has resolved has
\* recorded its entity, and the result holds each reachable object reference
\* (the root included) exactly once.
C17_RecordedExactlyOnce ==
    ~Cyclic(heap)
    => /\ \A o \in Objs : Cardinality(EntriesOf(o)) <= 1
       /\ \A o \in Objs \ Reachable(heap) : EntriesOf(o) = {}
       /\ \A c \in 1..Len(calls) :
             calls[c].resolved => EntriesOf(calls[c].entity) # {}
       /\ cstatus = "done" =>
             /\ \A o \in Reachable(heap) : Cardinality(EntriesOf(o)) = 1
             /\ Len(entityWithIds) = Cardinality(Reachable(heap))
             /\ Elements(entityWithIds) = Elements(ExtractObjectsById(heap, Root))

\* A collection completed on an acyclic graph of three objects, one of them
\* reached through two paths.
C17_Witness ==
    /\ cstatus = "done"
    /\ ~Cyclic(heap)
    /\ Len(entityWithIds) = 3
    /\ \E o \in Objs : Cardinality(InvocationsOn(o)) >= 2

(***************************************************************************)
(* Further properties of the relation operations.                          *)
(***************************************************************************)
\* The junction row with the owning side's id in the first column, for the
\* id e on the side of the repository's entity and the id r on the other.
OwnerFirst(relation, e, r) == IF relation.isOwning THEN <<e, r>> ELSE <<r, e>>

ManyToManyNames == {p \in RelationNames : FindRelationWithPropertyName(p).isManyToMany}

\* The rows the statements of an outcome insert, and the rows they match for
\* deletion.
InsertedRows(outcome) == {st.row : st \in {x \in outcome.statements : x.kind = "insert"}}

DeletedRows(outcome) ==
    UNION {st.where : st \in {x \in outcome.statements : x.kind = "delete"}}

\* The four methods agree on the row of a pair, for every many-to-many
\* relation and every two ids.
SameRowFromBothSides ==
    \A p \in ManyToManyNames, e \in Ids, r \in Ids :
        LET relation == FindRelationWithPropertyName(p)
            row == OwnerFirst(relation, e, r)
        IN  /\ AddToRelation(p, e, List(<<r>>)) = AddToInverseRelation(p, r, List(<<e>>))
            /\ InsertedRows(AddToRelation(p, e, List(<<r>>))) = {row}
            /\ InsertedRows(AddToInverseRelation(p, r, List(<<e>>))) = {row}
            /\ DeletedRows(RemoveFromRelation(p, e, List(<<r>>))) = {row}
            /\ DeletedRows(RemoveFromInverseRelation(p, r, List(<<e>>))) = {row}

\* C18: junction rows store the owning side's id in the first column
\* whichever side and method wrote them: addToInverseRelation(relation, r,
\* [e]) inserts the row addToRelation(relation, e, [r]) inserts, the removes
\* delete exactly the row the corresponding add inserted, and a call that
\* resolved has added or removed exactly those rows of the junction table.
C18_OwnerFirstFromBothSides ==
    /\ SameRowFromBothSides
    /\ (relPhase = "done" /\ relResult = "resolved" /\ CalledManyToMany) =>
          LET relation == CalledRelation
              t == relation.junctionTable
              id == relCall.entityId
              add == Elements(relCall.add.ids)
              remove == Elements(relCall.remove.ids)
          IN  /\ relCall.op = "addToRelation" =>
                   junction[t] = preJunction[t]
                                   \cup {OwnerFirst(relation, id, r) : r \in add}
              /\ relCall.op = "addToInverseRelation" =>
                   junction[t] = preJunction[t]
                                   \cup {OwnerFirst(relation, e, id) : e \in add}
              /\ relCall.op = "removeFromRelation" =>
                   junction[t] = preJunction[t]
                                   \ {OwnerFirst(relation, id, r) : r \in remove}
              /\ relCall.op = "removeFromInverseRelation" =>
                   junction[t] = preJunction[t]
                                   \ {OwnerFirst(relation, e, id) : e \in remove}

\* removeFromInverseRelation on the relation the repository's entity does
\* not own has deleted the row of two different ids, and only that row.
C18_Witness ==
    /\ relPhase = "done"
    /\ relResult = "resolved"
    /\ relCall.op = "removeFromInverseRelation"
    /\ CalledManyToMany
    /\ ~CalledRelation.isOwning
    /\ \E e \in Ids \ {relCall.entityId} :
          /\ relCall.remove.ids = <<e>>
          /\ <<relCall.entityId, e>> \in preJunction[CalledRelation.junctionTable]
          /\ <<relCall.entityId, e>> \notin junction[CalledRelation.junctionTable]
          /\ <<e, relCall.entityId>> \in junction[CalledRelation.junctionTable]

(***************************************************************************)
(* Further properties of transaction.                                      *)
(***************************************************************************)
\* C19: beginTransaction completes before the callback starts and the
\* callback completes before commitTransaction is called; when all three
\* succeed the promise resolves with the callback's result, commitTransaction
\* has been called exactly once and rollbackTransaction never.
C19_BeginRunCommitInOrder ==
    /\ \A i \in 1..Len(txLog) :
          /\ txLog[i] = "beginTransaction" => i = 1
          /\ txLog[i] = "runInTransaction" =>
                i = 2 /\ txLog[1] = "beginTransaction"
          /\ txLog[i] = "commitTransaction" =>
                i = 3 /\ txLog[2] = "runInTransaction"
    /\ Invocations("commitTransaction") <= 1
    /\ (txPc \in {"result", "done"} /\ txErr = NoError) =>
          /\ txLog = <<"beginTransaction", "runInTransaction", "commitTransaction">>
          /\ Invocations("rollbackTransaction") = 0
          /\ runInTransactionResult = txResult
          /\ txPc = "done" => txOutcome = Resolved(txResult)

\* The three steps succeeded and the caller has the value the callback
\* returned.
C19_Witness ==
    /\ txPc = "done"
    /\ txErr = NoError
    /\ txResult # Null
    /\ txOutcome = Resolved(txResult)

\* C20: rollbackTransaction is invoked only after beginTransaction has
\* succeeded: if beginTransaction fails, the callback is not run and no
\* rollback is issued.
C20_NoRollbackWithoutBegin ==
    txErr.from = "beginTransaction"
    => /\ Invocations("runInTransaction") = 0
       /\ Invocations("rollbackTransaction") = 0

\* If beginTransaction fails, the callback is not run.
NoCallbackWithoutBegin ==
    txErr.from = "beginTransaction" => Invocations("runInTransaction") = 0

(***************************************************************************)
(* Further properties of persist and remove.                               *)
(***************************************************************************)
\* C21: in remove the caller's entity keeps the identifier it had before the
\* call unless the removal is applied: a step of a remove call changes the
\* identifier of the entity only if it applies the removal, so an entity
\* whose remove rejects still holds its identifier.
C21_IdKeptUnlessRemoved ==
    [][\A e \in 1..MaxEntities :
          (pOp = "remove" /\ heap'[e].id # heap[e].id) => e \in applied']_vars

(***************************************************************************)
(* The order of the statements of addAndRemoveFromRelation.                *)
(***************************************************************************)
\* A junction table after a statement, as ExecuteInsert and ExecuteDelete
\* leave it.
StatementEffect(st, table) ==
    CASE st.kind = "insert" -> table \cup {st.row}
      [] st.kind = "delete" -> table \ Deleted(st, table)
      [] OTHER -> table

RECURSIVE RunInOrder(_, _)
RunInOrder(statements, table) ==
    IF statements = <<>>
    THEN table
    ELSE RunInOrder(Tail(statements), StatementEffect(Head(statements), table))

\* The orders in which the storage can execute a set of statements.
Orders(statements) ==
    {o \in [1..Cardinality(statements) -> statements] :
        \A i, j \in 1..Cardinality(statements) : o[i] = o[j] => i = j}

AddAndRemoveCalled ==
    /\ relCall.op \in {"addAndRemoveFromRelation", "addAndRemoveFromInverseRelation"}
    /\ CalledManyToMany
    /\ ~relCall.add.isNull
    /\ ~relCall.remove.isNull

\* C22: the outcome of addAndRemoveFromRelation and of
\* addAndRemoveFromInverseRelation is deterministic: for any add list and
\* remove list, lists that share an id included, the junction table the call
\* ends with is the one every order of executing its insert and delete
\* statements gives.
C22_SameUnderEveryOrder ==
    (AddAndRemoveCalled /\ relPhase = "done")
    => \A o \in Orders(issued) :
          junction[CalledRelation.junctionTable]
            = RunInOrder(o, preJunction[CalledRelation.junctionTable])

\* The final table is the one some order of the statements gives.
SomeOrderExplainsOutcome ==
    (AddAndRemoveCalled /\ relPhase = "done")
    => \E o \in Orders(issued) :
          junction[CalledRelation.junctionTable]
            = RunInOrder(o, preJunction[CalledRelation.junctionTable])

\* With no id in both lists the outcome does not depend on the order.
DisjointListsSameUnderEveryOrder ==
    (/\ AddAndRemoveCalled
     /\ relPhase = "done"
     /\ Elements(relCall.add.ids) \cap Elements(relCall.remove.ids) = {})
    => \A o \in Orders(issued) :
          junction[CalledRelation.junctionTable]
            = RunInOrder(o, preJunction[CalledRelation.junctionTable])

(***************************************************************************)
(* The entries of the database-side set of persist.                        *)
(***************************************************************************)
\* No two entries of the list are the same logical row.
OneEntryPerRow(entities) ==
    \A i, j \in 1..Len(entities) : SameRow(entities[i], entities[j]) => i = j

FindNotLoadedIdsReturned(e) ==
    /\ pOp = "persist"
    /\ pipe[e].pc = "find"
    /\ pipe'[e].pc = "build"

\* The db entities findNotLoadedIds returns hold each row once, when the
\* loaded ones it was given did.
RecordedOncePerRow ==
    [][\A e \in 1..MaxEntities :
          (FindNotLoadedIdsReturned(e) /\ OneEntryPerRow(pipe[e].entityWithIds))
          => OneEntryPerRow(pipe'[e].allDbEntities)]_vars

\* findNotLoadedIds looks a row up once.
LookedUpOncePerRow ==
    [][\A e \in 1..MaxEntities :
          (FindNotLoadedIdsReturned(e) /\ OneEntryPerRow(pipe[e].entityWithIds))
          => OneEntryPerRow(pipe'[e].lookups)]_vars

\* C23: the db entities findNotLoadedIds returns to persist hold at most one
\* entry for an (entityTarget, id), provided the loaded db entities it was
\* given did; two distinct requested objects with the same type and id that
\* were not loaded cause one lookup and one entry.
C23_LookedUpAndRecordedOnce ==
    [][\A e \in 1..MaxEntities :
          (FindNotLoadedIdsReturned(e) /\ OneEntryPerRow(pipe[e].entityWithIds))
          => /\ OneEntryPerRow(pipe'[e].lookups)
             /\ OneEntryPerRow(pipe'[e].allDbEntities)]_vars

\* The loaded db entities handed to findNotLoadedIds hold each row once.
LoadedOncePerRow ==
    \A e \in 1..MaxEntities :
        pipe[e].pc = "find" => OneEntryPerRow(pipe[e].entityWithIds)

(***************************************************************************)
(* An object two persisted entities share.                                 *)
(***************************************************************************)
\* The plan of call e holds an insert of object c as a new row.
InsertsNew(e, c) ==
    \E i \in 1..Len(pipe[e].persistOperation) :
        /\ pipe[e].persistOperation[i].kind = "insert"
        /\ pipe[e].persistOperation[i].entity = c
        /\ pipe[e].persistOperation[i].id = Null

\* The calls of persist([a, b]) whose entity refers to object c.
Sharing(c) == {e \in 1..pLen : heap[e].one = c}

\* C25: persist([a, b]) with a and b referring to the same object c that has
\* no identity yet inserts c at most once: however the two calls interleave,
\* at most one of their plans holds an insert for c.
C25_SharedInsertedAtMostOnce ==
    pOp = "persist"
    => \A c \in Objs \ (1..pLen) :
          Cardinality({e \in Sharing(c) : InsertsNew(e, c)}) <= 1

\* No two calls that inserted the shared object as a new row have both run
\* their plan to the end.
SharedNotInsertedByBothApplied ==
    (/\ pOp = "persist"
     /\ pLen = 2
     /\ Sharing(3) = {1, 2}
     /\ applied = {1, 2}
     /\ InsertsNew(1, 3))
    => ~InsertsNew(2, 3)

(***************************************************************************)
(* The order of the collected entities.                                    *)
(***************************************************************************)
\* The objects an object reaches through its relations.
Below(o) == ReachFrom(heap, {o}, {})

\* Every entry comes after an entry for each object its entity reaches.
PostOrder ==
    \A i \in Entries :
        \A o \in Below(entityWithIds[i].entity) :
            \E j \in 1..(i - 1) : entityWithIds[j].entity = o

RootLast ==
    cstatus = "done"
    => /\ entityWithIds # <<>>
       /\ entityWithIds[Len(entityWithIds)].entity = Root

\* C24: on an acyclic graph extractObjectsById records in post-order, however
\* the then-callbacks interleave: every entity is recorded after all the
\* entities reachable from it through its relations, and so the root is the
\* last entry of the list.
C24_PostOrder == ~Cyclic(heap) => (PostOrder /\ RootLast)

\* The collection of an acyclic graph of three objects is done, the root
\* holds two objects and one of them holds the other: that one was walked
\* twice and recorded once, before the object that holds it.
C24_Witness ==
    /\ cstatus = "done"
    /\ ~Cyclic(heap)
    /\ Len(SubEntities(heap, Root)) = 2
    /\ \E o \in Below(Root) : Below(o) # {}
    /\ Len(calls) > Len(entityWithIds)
    /\ Len(entityWithIds) = NumObjs

=============================================================================
